---- MODULE Spec2Model ----
(***************************************************************************)
(* Model of generate_curves (src/combine_segments.py): the point registry, *)
(* the endpoint matcher (lexsort + adjacent comparison with wraparound)    *)
(* and the curve assembler (Start / right extension / left extension /     *)
(* emit, with the KeyError path).                                          *)
(*                                                                         *)
(* Coordinates and the tolerance are integers (the comparison of line 93   *)
(* is |a - b| < tolerance per axis; no rounding is modelled).  A dict is a *)
(* function on its key set; end_point_dict, whose values are all 1, is the *)
(* set of its keys.  dict.popitem() is modelled as the removal of any key  *)
(* (the docstring's "randomly selects"); LifoKey is CPython's choice.      *)
(***************************************************************************)
EXTENDS Integers, Sequences, FiniteSets, TLC

MaxSegs == 3
MaxX == 1
MaxY == 2
MaxTol == 2
MaxSegsWide == 2
MaxXWide == 2
MaxSegsFour == 4

VARIABLES line_segments, tolerance, first_equal_dict, second_equal_dict,
          end_point_dict, current_first_endpoint, current_second_endpoint,
          current_segment, skip_left_check, curves_list, key_error, pc

vars == <<line_segments, tolerance, first_equal_dict, second_equal_dict,
          end_point_dict, current_first_endpoint, current_second_endpoint,
          current_segment, skip_left_check, curves_list, key_error, pc>>

\* ---------------------------------------------------------------- inputs

Points == (0..MaxX) \X (0..MaxY)

PointsWide == (0..MaxXWide) \X (0..MaxY)

Tolerances == 1..MaxTol

PointsFour == (0..MaxX) \X (0..MaxX)

\* Segments of non-zero length.
ProperSegments(pts) == {seg \in pts \X pts : seg[1] # seg[2]}

SegmentLists(pts, maxSegs) ==
    UNION { [1..n -> pts \X pts] : n \in 1..maxSegs }

\* ---------------------------------------------------------- point registry

num_dimensions(segs) == Len(segs[1][1])

num_points(segs) == 2 * Len(segs)

\* Row i of base_points: segment i \div 2, endpoint i % 2 (0-based indices).
base_points(segs) ==
    [i \in 0..(num_points(segs) - 1) |-> segs[(i \div 2) + 1][(i % 2) + 1]]

\* -------------------------------------------------------- endpoint matcher

Abs(a) == IF a < 0 THEN 0 - a ELSE a

\* Lexicographic order on coordinate tuples, axis 1 first (the last key
\* handed to np.lexsort is the primary one).
RECURSIVE CoordLess(_, _, _)
CoordLess(p, q, k) ==
    IF k > Len(p) THEN FALSE
    ELSE IF p[k] # q[k] THEN p[k] < q[k]
    ELSE CoordLess(p, q, k + 1)

\* np.lexsort is stable: equal rows keep their index order.
SortsBefore(bp, i, j) ==
    \/ CoordLess(bp[i], bp[j], 1)
    \/ bp[i] = bp[j] /\ i < j

\* Row i put into an already sorted sequence of rows with smaller indices:
\* it goes after every row that sorts before it.
InsertSorted(bp, srt, i) ==
    LET before == Cardinality({k \in 1..Len(srt) : SortsBefore(bp, srt[k], i)})
    IN  SubSeq(srt, 1, before) \o <<i>> \o SubSeq(srt, before + 1, Len(srt))

RECURSIVE SortRows(_, _)
SortRows(bp, n) ==
    IF n = 0 THEN <<>> ELSE InsertSorted(bp, SortRows(bp, n - 1), n - 1)

\* The sequence of row indices in sorted order (0-based row indices).
ind_for_sorting(segs) == SortRows(base_points(segs), num_points(segs))

\* The comparison with <= in place of <.
WithinToleranceInclusive(p, q, tol) ==
    \A k \in 1..Len(p) : Abs(p[k] - q[k]) <= tol

\* The comparison of line 93 for one pair of rows.
WithinTolerance(p, q, tol) ==
    \A k \in 1..Len(p) : Abs(p[k] - q[k]) < tol

\* np.roll(.., 1): row k is compared with row k - 1, row 1 with the last row.
RollPrev(k, n) == IF k = 1 THEN n ELSE k - 1

\* The sorted positions whose row is within tolerance of the rolled row.
equal_points(bp, srt, tol) ==
    {k \in 1..Len(srt) : WithinTolerance(bp[srt[k]], bp[srt[RollPrev(k, Len(srt))]], tol)}

\* equal_idx_pairs for the positions up to k, in position order: each pair is
\* <<index of the rolled row, index of the row>>.
RECURSIVE PairsUpTo(_, _, _)
PairsUpTo(srt, eq, k) ==
    IF k = 0 THEN <<>>
    ELSE IF k \in eq
         THEN Append(PairsUpTo(srt, eq, k - 1), <<srt[RollPrev(k, Len(srt))], srt[k]>>)
         ELSE PairsUpTo(srt, eq, k - 1)

equal_idx_pairs(segs, tol) ==
    LET srt == ind_for_sorting(segs)
        eq == equal_points(base_points(segs), srt, tol)
    IN  PairsUpTo(srt, eq, Len(srt))

\* A dict comprehension over the first n pairs in order: a later pair
\* overwrites an earlier one with the same key.
RECURSIVE DictOf(_, _, _, _)
DictOf(pairs, keyPos, valPos, n) ==
    IF n = 0 THEN <<>>
    ELSE (pairs[n][keyPos] :> pairs[n][valPos]) @@ DictOf(pairs, keyPos, valPos, n - 1)

FirstEqualDict(pairs) == DictOf(pairs, 1, 2, Len(pairs))

\* The backward map built in the forward direction.
SecondEqualDictForward(pairs) == DictOf(pairs, 1, 2, Len(pairs))

SecondEqualDict(pairs) == DictOf(pairs, 2, 1, Len(pairs))

\* The endpoint dict built over one index too few.
EndPointDictShort(segs) == 0..(num_points(segs) - 2)

EndPointDict(segs) == 0..(num_points(segs) - 1)

\* --------------------------------------------------------- curve assembler

NoKey == 0 - 1

NoError == [key |-> NoKey, site |-> "none"]

Del(d, k) == [c \in (DOMAIN d) \ {k} |-> d[c]]

\* The endpoint itself in place of the other endpoint of its segment.
SiblingSelf(i) == i

\* The other endpoint of the same segment (lines 120-126, 168-172, 223-227).
Sibling(i) == IF i % 2 = 1 THEN i - 1 ELSE i + 1

\* The except clause reporting the other endpoint of the segment of the key.
RaiseOtherEndpoint(st, k, where) ==
    [st EXCEPT !.key_error = [key |-> Sibling(k), site |-> where],
               !.curves_list = <<>>,
               !.pc = "done"]

\* The except clause without the reset of curves_list.
RaiseKeepsCurves(st, k, where) ==
    [st EXCEPT !.key_error = [key |-> k, site |-> where],
               !.pc = "done"]

\* The except clause (lines 251-253) followed by the return.
Raise(st, k, where) ==
    [st EXCEPT !.key_error = [key |-> k, site |-> where],
               !.curves_list = <<>>,
               !.pc = "done"]

\* The state on entry: the inputs bound, nothing computed yet.
EntryState(segs, tol) ==
    [line_segments |-> segs,
     tolerance |-> tol,
     first_equal_dict |-> <<>>,
     second_equal_dict |-> <<>>,
     end_point_dict |-> {},
     current_first_endpoint |-> NoKey,
     current_second_endpoint |-> NoKey,
     current_segment |-> <<>>,
     skip_left_check |-> FALSE,
     curves_list |-> <<>>,
     key_error |-> NoError,
     pc |-> "match"]

\* Lines 62-106: the point registry and the endpoint matcher.
MatchStep(st) ==
    LET pairs == equal_idx_pairs(st.line_segments, st.tolerance)
    IN  [st EXCEPT !.first_equal_dict = FirstEqualDict(pairs),
                   !.second_equal_dict = SecondEqualDict(pairs),
                   !.end_point_dict = EndPointDict(st.line_segments),
                   !.pc = "loop"]

\* The start of a curve that leaves the other endpoint of the main segment
\* in end_point_dict.
StartKeepsSibling(st, e) ==
    LET f == IF e % 2 = 1 THEN e - 1 ELSE e
    IN  [st EXCEPT !.end_point_dict = @ \ {e},
                   !.current_first_endpoint = f,
                   !.current_second_endpoint = f + 1,
                   !.current_segment = <<f, f + 1>>,
                   !.skip_left_check = FALSE,
                   !.pc = "right"]

\* Lines 114-134 with popitem() returning e.
StartStep(st, e) ==
    LET f == IF e % 2 = 1 THEN e - 1 ELSE e
        s == f + 1
        other == IF e % 2 = 1 THEN f ELSE s
        popped == st.end_point_dict \ {e}
    IN  IF other \notin popped
        THEN Raise([st EXCEPT !.end_point_dict = popped], other, "sibling")
        ELSE [st EXCEPT !.end_point_dict = popped \ {other},
                        !.current_first_endpoint = f,
                        !.current_second_endpoint = s,
                        !.current_segment = <<f, s>>,
                        !.skip_left_check = FALSE,
                        !.pc = "right"]

\* The right loop without its break: control stays in the loop.
AfterRightNoBreak(skip) == "right"

\* Where control goes after the right loop ends (line 196).
AfterRight(skip) == IF skip THEN "emit" ELSE "left"

\* One iteration of the right loop (lines 137-194).
RightStep(st) ==
    LET s == st.current_second_endpoint
        f == st.current_first_endpoint
        right_first_check == s \in DOMAIN st.first_equal_dict
        right_second_check == s \in DOMAIN st.second_equal_dict
        corresponding_value ==
            IF right_first_check THEN st.first_equal_dict[s]
            ELSE st.second_equal_dict[s]
        looked == IF right_first_check
                  THEN [st EXCEPT !.first_equal_dict = Del(@, s)]
                  ELSE [st EXCEPT !.second_equal_dict = Del(@, s)]
        otherPresent ==
            IF right_first_check
            THEN corresponding_value \in DOMAIN st.second_equal_dict
            ELSE corresponding_value \in DOMAIN looked.first_equal_dict
        unpaired ==
            IF right_first_check
            THEN [looked EXCEPT !.second_equal_dict = Del(@, corresponding_value)]
            ELSE [looked EXCEPT !.first_equal_dict = Del(@, corresponding_value)]
        final_value == Sibling(corresponding_value)
        taken == [unpaired EXCEPT
                    !.end_point_dict = @ \ {corresponding_value},
                    !.current_segment = Append(@, final_value)]
    IN  IF ~(right_first_check \/ right_second_check)
        THEN [st EXCEPT !.pc = AfterRight(st.skip_left_check)]
        ELSE IF ~otherPresent
        THEN Raise(looked, corresponding_value, "pairing")
        ELSE IF corresponding_value = f
        THEN [unpaired EXCEPT !.skip_left_check = TRUE, !.pc = AfterRight(TRUE)]
        ELSE IF corresponding_value \notin unpaired.end_point_dict
        THEN Raise(unpaired, corresponding_value, "paired")
        ELSE IF final_value = f
        THEN [taken EXCEPT !.skip_left_check = TRUE, !.pc = AfterRight(TRUE)]
        ELSE IF final_value \notin taken.end_point_dict
        THEN Raise(taken, final_value, "sibling")
        ELSE [taken EXCEPT !.end_point_dict = @ \ {final_value},
                           !.current_second_endpoint = final_value]

\* How lines 231 add the point found by the left extension to the chain.
LeftAdd(chain, v) == Append(chain, v)

\* One iteration of the left loop (lines 198-244).
LeftStep(st) ==
    LET f == st.current_first_endpoint
        left_first_check == f \in DOMAIN st.first_equal_dict
        left_second_check == f \in DOMAIN st.second_equal_dict
        corresponding_value ==
            IF left_first_check THEN st.first_equal_dict[f]
            ELSE st.second_equal_dict[f]
        looked == IF left_first_check
                  THEN [st EXCEPT !.first_equal_dict = Del(@, f)]
                  ELSE [st EXCEPT !.second_equal_dict = Del(@, f)]
        otherPresent ==
            IF left_first_check
            THEN corresponding_value \in DOMAIN st.second_equal_dict
            ELSE corresponding_value \in DOMAIN looked.first_equal_dict
        unpaired ==
            IF left_first_check
            THEN [looked EXCEPT !.second_equal_dict = Del(@, corresponding_value)]
            ELSE [looked EXCEPT !.first_equal_dict = Del(@, corresponding_value)]
        final_value == Sibling(corresponding_value)
        taken == [unpaired EXCEPT
                    !.end_point_dict = @ \ {corresponding_value},
                    !.current_segment = LeftAdd(@, final_value)]
    IN  IF ~(left_first_check \/ left_second_check)
        THEN [st EXCEPT !.pc = "emit"]
        ELSE IF ~otherPresent
        THEN Raise(looked, corresponding_value, "pairing")
        ELSE IF corresponding_value \notin unpaired.end_point_dict
        THEN Raise(unpaired, corresponding_value, "paired")
        ELSE IF final_value \notin taken.end_point_dict
        THEN Raise(taken, final_value, "sibling")
        ELSE [taken EXCEPT !.end_point_dict = @ \ {final_value},
                           !.current_first_endpoint = final_value]

\* The emission of a curve that puts its first endpoint back into
\* end_point_dict.
EmitReleasesFirst(st) ==
    [st EXCEPT !.curves_list = Append(@, st.current_segment),
               !.end_point_dict = @ \cup {st.current_first_endpoint},
               !.pc = "loop"]

\* Line 247 (the curve is kept as its endpoint indices; CurvePoints gives
\* base_points[current_segment]).
EmitStep(st) ==
    [st EXCEPT !.curves_list = Append(@, st.current_segment), !.pc = "loop"]

\* Line 110 false, then line 255.
ReturnStep(st) == [st EXCEPT !.pc = "done"]

CurvePoints(segs, curve) ==
    [k \in 1..Len(curve) |-> base_points(segs)[curve[k]]]

\* ------------------------------------------------------------ state machine

State ==
    [line_segments |-> line_segments,
     tolerance |-> tolerance,
     first_equal_dict |-> first_equal_dict,
     second_equal_dict |-> second_equal_dict,
     end_point_dict |-> end_point_dict,
     current_first_endpoint |-> current_first_endpoint,
     current_second_endpoint |-> current_second_endpoint,
     current_segment |-> current_segment,
     skip_left_check |-> skip_left_check,
     curves_list |-> curves_list,
     key_error |-> key_error,
     pc |-> pc]

Becomes(st) ==
    /\ line_segments' = st.line_segments
    /\ tolerance' = st.tolerance
    /\ first_equal_dict' = st.first_equal_dict
    /\ second_equal_dict' = st.second_equal_dict
    /\ end_point_dict' = st.end_point_dict
    /\ current_first_endpoint' = st.current_first_endpoint
    /\ current_second_endpoint' = st.current_second_endpoint
    /\ current_segment' = st.current_segment
    /\ skip_left_check' = st.skip_left_check
    /\ curves_list' = st.curves_list
    /\ key_error' = st.key_error
    /\ pc' = st.pc

InitWith(segLists, tols) ==
    /\ line_segments \in segLists
    /\ tolerance \in tols
    /\ first_equal_dict = <<>>
    /\ second_equal_dict = <<>>
    /\ end_point_dict = {}
    /\ current_first_endpoint = NoKey
    /\ current_second_endpoint = NoKey
    /\ current_segment = <<>>
    /\ skip_left_check = FALSE
    /\ curves_list = <<>>
    /\ key_error = NoError
    /\ pc = "match"

Init == InitWith(SegmentLists(Points, MaxSegs), Tolerances)

InitWide == InitWith(SegmentLists(PointsWide, MaxSegsWide), Tolerances)

\* The state when the assembly starts (line 108): the matcher has run.
InitAssembly ==
    \E segs \in SegmentLists(PointsFour, MaxSegs) : \E tol \in Tolerances :
        LET st == MatchStep(EntryState(segs, tol))
        IN  /\ line_segments = st.line_segments
            /\ tolerance = st.tolerance
            /\ first_equal_dict = st.first_equal_dict
            /\ second_equal_dict = st.second_equal_dict
            /\ end_point_dict = st.end_point_dict
            /\ current_first_endpoint = st.current_first_endpoint
            /\ current_second_endpoint = st.current_second_endpoint
            /\ current_segment = st.current_segment
            /\ skip_left_check = st.skip_left_check
            /\ curves_list = st.curves_list
            /\ key_error = st.key_error
            /\ pc = st.pc

\* Lists of MaxSegsFour segments of non-zero length on the unit grid, with the
\* tolerance below the grid spacing (endpoints meet only where they are equal).
InitFour == InitWith([1..MaxSegsFour -> ProperSegments(PointsFour)], {1})

Match ==
    /\ pc = "match"
    /\ Becomes(MatchStep(State))

Start ==
    /\ pc = "loop"
    /\ end_point_dict # {}
    /\ \E e \in end_point_dict : Becomes(StartStep(State, e))

ExtendRight ==
    /\ pc = "right"
    /\ Becomes(RightStep(State))

ExtendLeft ==
    /\ pc = "left"
    /\ Becomes(LeftStep(State))

Emit ==
    /\ pc = "emit"
    /\ Becomes(EmitStep(State))

Return ==
    /\ pc = "loop"
    /\ end_point_dict = {}
    /\ Becomes(ReturnStep(State))

Next == Match \/ Start \/ ExtendRight \/ ExtendLeft \/ Emit \/ Return

Spec == Init /\ [][Next]_vars

SpecWide == InitWide /\ [][Next]_vars

SpecFour == InitFour /\ [][Next]_vars

\* The steps of the try block (lines 108-247) and the return.
Assemble == Start \/ ExtendRight \/ ExtendLeft \/ Emit \/ Return

\* The assembly alone, run to its end: the function is single-threaded and
\* synchronous, so a step that can be taken is taken.
SpecAssemblyFair == InitAssembly /\ [][Assemble]_vars /\ WF_vars(Assemble)

\* ------------------------------------------------------- the whole function

\* dict.popitem() in CPython: the key inserted last among those left (the keys
\* were inserted in increasing order on line 106).
LifoKey(keys) == CHOOSE e \in keys : \A o \in keys : o <= e

\* One step of the function with popitem() taking the last key.
StepLifo(st) ==
    IF st.pc = "match" THEN MatchStep(st)
    ELSE IF st.pc = "loop" /\ st.end_point_dict # {}
         THEN StartStep(st, LifoKey(st.end_point_dict))
    ELSE IF st.pc = "loop" THEN ReturnStep(st)
    ELSE IF st.pc = "right" THEN RightStep(st)
    ELSE IF st.pc = "left" THEN LeftStep(st)
    ELSE EmitStep(st)

RECURSIVE RunLifo(_)
RunLifo(st) == IF st.pc = "done" THEN st ELSE RunLifo(StepLifo(st))

\* The list of curves (as coordinates) that the function returns.
generate_curves(segs, tol) ==
    LET fin == RunLifo(EntryState(segs, tol))
    IN  [c \in 1..Len(fin.curves_list) |-> CurvePoints(segs, fin.curves_list[c])]

\* ------------------------------------------------------------- vocabulary

BP == base_points(line_segments)

Idx == DOMAIN BP

NumSegs == Len(line_segments)

Returned == pc = "done"

Failed == key_error # NoError

\* The curves returned, as coordinate sequences.
Curves == [c \in 1..Len(curves_list) |-> CurvePoints(line_segments, curves_list[c])]

\* Two points are the same location: no axis on which they differ by the
\* tolerance or more.
SameLocation(p, q) ==
    ~ \E k \in 1..Len(p) : (p[k] - q[k] >= tolerance) \/ (q[k] - p[k] >= tolerance)

\* The other endpoints at the location of endpoint i.
Neighbours(i) == {j \in Idx \ {i} : SameLocation(BP[i], BP[j])}

\* No location is shared by more than two endpoints.
ValidInput == \A i \in Idx : Cardinality(Neighbours(i)) <= 1

\* Segments (1-based) a and b share an endpoint location.
Touch(a, b) ==
    \E i \in {2 * a - 2, 2 * a - 1} : \E j \in {2 * b - 2, 2 * b - 1} :
        SameLocation(BP[i], BP[j])

RECURSIVE ComponentFrom(_)
ComponentFrom(S) ==
    LET T == S \cup {b \in 1..NumSegs : \E a \in S : Touch(a, b)}
    IN  IF T = S THEN S ELSE ComponentFrom(T)

ComponentOf(a) == ComponentFrom({a})

Components == {ComponentOf(a) : a \in 1..NumSegs}

\* The segments (1-based) whose endpoints a curve lists.
SegmentsOf(curve) == {(curve[k] \div 2) + 1 : k \in 1..Len(curve)}

IsClosed(points) == SameLocation(points[1], points[Len(points)])

\* One cycle: one component, every endpoint meets exactly one other endpoint.
SingleCycle ==
    /\ Components = {1..NumSegs}
    /\ \A i \in Idx : Cardinality(Neighbours(i)) = 1

\* One simple open path: one component, two free endpoints on different
\* segments ends, every other endpoint meets exactly one other endpoint.
SimplePath ==
    /\ Components = {1..NumSegs}
    /\ ValidInput
    /\ Cardinality({i \in Idx : Neighbours(i) = {}}) = 2

\* Points p and q are the two endpoints of one input segment.
IsSegment(p, q) ==
    \E a \in 1..NumSegs :
        \/ SameLocation(line_segments[a][1], p) /\ SameLocation(line_segments[a][2], q)
        \/ SameLocation(line_segments[a][2], p) /\ SameLocation(line_segments[a][1], q)

\* ----------------------------------------------------------------- claims

\* C1: every curve returned lists its points in chain order: any two
\* consecutive points of a returned curve are the two endpoints of one input
\* segment (a point found by the left extension comes before the first point).
C1_ChainOrder ==
    Returned =>
        \A c \in 1..Len(curves_list) : \A k \in 1..(Len(curves_list[c]) - 1) :
            IsSegment(Curves[c][k], Curves[c][k + 1])

\* C2: when the k input segments form one single cycle, the function returns
\* exactly one curve, of k + 1 points, whose first and last points coincide.
C2_ClosureCorrect ==
    (Returned /\ SingleCycle) =>
        /\ Len(curves_list) = 1
        /\ Len(curves_list[1]) = NumSegs + 1
        /\ IsClosed(Curves[1])

\* C3: when the k input segments form one simple open path, the function
\* returns exactly one curve, of k + 1 points, whose first and last points are
\* distinct locations.
C3_OpenChainCorrect ==
    (Returned /\ SimplePath) =>
        /\ Len(curves_list) = 1
        /\ Len(curves_list[1]) = NumSegs + 1
        /\ ~IsClosed(Curves[1])

\* The coordinates shared by three or more endpoints.
CrowdedCoordinates ==
    {BP[i] : i \in {j \in Idx : Cardinality({m \in Idx : BP[m] = BP[j]}) >= 3}}

\* A star at coordinate c: exactly three endpoints have that coordinate, on
\* three distinct segments, and the rest of the input is valid (every other
\* endpoint is away from c and meets at most one other endpoint).
StarAt(c) ==
    LET at == {i \in Idx : BP[i] = c}
    IN  /\ Cardinality(at) = 3
        /\ Cardinality({i \div 2 : i \in at}) = 3
        /\ \A j \in Idx \ at :
              /\ ~SameLocation(BP[j], c)
              /\ Cardinality(Neighbours(j)) <= 1

\* C4: for a star (three distinct segments with one endpoint each at the same
\* exact coordinate, the rest of the input valid) the function returns the
\* empty list and the endpoint it reports has exactly that coordinate.
C4_StarRejected ==
    \A c \in {BP[i] : i \in Idx} :
        (Returned /\ StarAt(c)) =>
            /\ curves_list = <<>>
            /\ Failed
            /\ BP[key_error.key] = c

C4_Witness ==
    /\ Returned
    /\ Failed
    /\ \E c \in {BP[i] : i \in Idx} : StarAt(c)
    /\ \E i \in Idx : Neighbours(i) # {} /\ BP[i] \notin CrowdedCoordinates

\* C5: when some location is shared by more than two endpoints, the function
\* detects it as a failed removal and returns the empty list.
C5_InvalidAlwaysRejected ==
    (Returned /\ CrowdedCoordinates # {}) => (Failed /\ curves_list = <<>>)

\* C6: for a valid input of N segments the function succeeds, every segment
\* belongs to exactly one returned curve, every curve has at least 2 points and
\* the curves' (number of points - 1) add up to N.
RECURSIVE SumOfSegments(_, _)
SumOfSegments(curves, n) ==
    IF n = 0 THEN 0 ELSE (Len(curves[n]) - 1) + SumOfSegments(curves, n - 1)

C6_PartitionComplete ==
    (Returned /\ ValidInput) =>
        /\ ~Failed
        /\ \A a \in 1..NumSegs :
              Cardinality({c \in 1..Len(curves_list) : a \in SegmentsOf(curves_list[c])}) = 1
        /\ \A c \in 1..Len(curves_list) : Len(curves_list[c]) >= 2
        /\ SumOfSegments(curves_list, Len(curves_list)) = NumSegs

C6_Witness ==
    /\ Returned
    /\ ValidInput
    /\ Len(curves_list) = 2
    /\ \E c \in 1..2 : Len(curves_list[c]) = 3

\* C7: for a valid input the number of curves returned is the number of
\* connected components of the segments, every curve holds segments of one
\* component only, and every component that is a cycle comes back closed.
IsCycleComponent(comp) ==
    \A a \in comp : \A i \in {2 * a - 2, 2 * a - 1} : Neighbours(i) # {}

C7_DisjointComponents ==
    (Returned /\ ValidInput) =>
        /\ Len(curves_list) = Cardinality(Components)
        /\ \A c \in 1..Len(curves_list) : SegmentsOf(curves_list[c]) \in Components
        /\ \A c \in 1..Len(curves_list) :
              IsCycleComponent(SegmentsOf(curves_list[c])) => IsClosed(Curves[c])

\* C8: the set of curves returned does not depend on the order of the input
\* segment list, curves being compared as point sequences up to reversal, and
\* up to rotation when closed.  It is stated for the valid inputs, where no
\* order of the list is rejected, so that a difference is one of curves.
Reverse(seq) == [k \in 1..Len(seq) |-> seq[Len(seq) + 1 - k]]

\* A closed curve started r vertices later: its ring of Len - 1 vertices is
\* rotated and the new first vertex is repeated at the end.
Rotate(seq, r) ==
    LET n == Len(seq) - 1
    IN  [k \in 1..Len(seq) |-> seq[((k - 1 + r) % n) + 1]]

SamePoints(c1, c2) ==
    /\ Len(c1) = Len(c2)
    /\ \A k \in 1..Len(c1) : SameLocation(c1[k], c2[k])

EquivalentCurves(c1, c2) ==
    \/ SamePoints(c1, c2)
    \/ SamePoints(c1, Reverse(c2))
    \/ /\ IsClosed(c1)
       /\ IsClosed(c2)
       /\ Len(c1) = Len(c2)
       /\ \E r \in 0..(Len(c2) - 2) :
             \/ SamePoints(c1, Rotate(c2, r))
             \/ SamePoints(c1, Reverse(Rotate(c2, r)))

SameCurveSet(r1, r2) ==
    /\ \A a \in 1..Len(r1) : \E b \in 1..Len(r2) : EquivalentCurves(r1[a], r2[b])
    /\ \A b \in 1..Len(r2) : \E a \in 1..Len(r1) : EquivalentCurves(r1[a], r2[b])

Shuffled(perm) == [k \in 1..NumSegs |-> line_segments[perm[k]]]

C8_OrderInvariant ==
    (Returned /\ ValidInput) =>
        \A perm \in Permutations(1..NumSegs) :
            SameCurveSet(generate_curves(line_segments, tolerance),
                         generate_curves(Shuffled(perm), tolerance))

\* C9: the matcher never records a pairing between two endpoints that differ
\* by the tolerance or more on some axis (the wraparound pairing included), so
\* no such pairing is ever there for the assembler to follow.
PairedApart(d) ==
    \E c \in DOMAIN d : ~SameLocation(BP[c], BP[d[c]])

C9_ToleranceStrict ==
    pc # "match" => (~PairedApart(first_equal_dict) /\ ~PairedApart(second_equal_dict))

\* Endpoints i and j differ by exactly the tolerance on one axis and not at
\* all on the others.
ExactlyToleranceApart(i, j) ==
    \E k \in 1..Len(BP[i]) :
        /\ Abs(BP[i][k] - BP[j][k]) = tolerance
        /\ \A m \in (1..Len(BP[i])) \ {k} : BP[i][m] = BP[j][m]

\* Just after matching: two endpoints exactly the tolerance apart, next to
\* each other in the sorted order, are left unpaired, while the wraparound
\* comparison has recorded a pairing of the last sorted row with the first.
C9_Witness ==
    /\ pc = "loop"
    /\ end_point_dict = Idx
    /\ LET srt == ind_for_sorting(line_segments)
           n == Len(srt)
       IN  /\ n > 2
           /\ srt[n] \in DOMAIN first_equal_dict
           /\ first_equal_dict[srt[n]] = srt[1]
           /\ \E k \in 2..n :
                 /\ ExactlyToleranceApart(srt[k - 1], srt[k])
                 /\ srt[k - 1] \notin DOMAIN first_equal_dict
                 /\ srt[k] \notin DOMAIN second_equal_dict

\* C10: two endpoints within the tolerance of each other on every axis, and
\* of no third endpoint, are paired by the matcher, and their segments come out
\* in the same curve.
AlonePair(i, j) == Neighbours(i) = {j} /\ Neighbours(j) = {i}

Paired(i, j) ==
    \/ i \in DOMAIN first_equal_dict /\ first_equal_dict[i] = j
    \/ j \in DOMAIN first_equal_dict /\ first_equal_dict[j] = i

C10_CoincidentMerged ==
    pc # "match" => \A i \in Idx : \A j \in Idx :
        AlonePair(i, j) =>
            /\ (pc = "loop" /\ end_point_dict = Idx) => Paired(i, j)
            /\ (Returned /\ ~Failed) =>
                  \E c \in 1..Len(curves_list) :
                      {(i \div 2) + 1, (j \div 2) + 1} \subseteq SegmentsOf(curves_list[c])

\* C11: a valid non-empty input is never rejected, whatever endpoints the
\* Start steps pop: no removal fails and the list returned is not empty; and
\* an empty list is returned only after a removal failed.
C11_NoFalseRejection ==
    Returned =>
        /\ ValidInput => (~Failed /\ curves_list # <<>>)
        /\ curves_list = <<>> => Failed

C11_Witness ==
    /\ Returned
    /\ ValidInput
    /\ ~Failed
    /\ Len(curves_list) = 1
    /\ Len(curves_list[1]) = 4
    /\ first_equal_dict = <<>>

\* C12: once a removal has failed the function returns the empty list: no
\* curve emitted before the failure is returned.
C12_NoPartialResult ==
    Failed => (Returned /\ curves_list = <<>>)

\* A removal failed while extending a chain, after another curve had been
\* emitted: some segment is consumed and is not part of the chain.
C12_Witness ==
    /\ Failed
    /\ key_error.site = "paired"
    /\ \E a \in 1..NumSegs :
          /\ {2 * a - 2, 2 * a - 1} \cap end_point_dict = {}
          /\ a \notin SegmentsOf(current_segment)
          /\ a # (key_error.key \div 2) + 1

\* C13: every run terminates, with the available-endpoint set empty or with
\* a detected failure.
C13_Terminates ==
    <>(Returned /\ (end_point_dict = {} \/ Failed))

\* A run that ended by a failure with endpoints still available.
C13_Witness ==
    /\ Returned
    /\ Failed
    /\ end_point_dict # {}
    /\ key_error.site = "paired"
    /\ Len(current_segment) = 2

\* C14: the outcome does not depend on which available endpoint each Start
\* step pops: every run on an input fails exactly when the run that pops the
\* last key does, and otherwise partitions the segments into the same curves.
Partition(curves) == {SegmentsOf(curves[c]) : c \in 1..Len(curves)}

C14_Confluent ==
    Returned =>
        LET ref == RunLifo(EntryState(line_segments, tolerance))
        IN  /\ Failed <=> (ref.key_error # NoError)
            /\ Partition(curves_list) = Partition(ref.curves_list)

\* C15: the forward and backward maps are synchronized in every state, after
\* construction and after every extension step: first_equal_dict maps x to y
\* exactly when second_equal_dict maps y to x, and no run fails on the removal
\* of the second direction of a pairing.
C15_MapsSynchronized ==
    /\ \A x \in DOMAIN first_equal_dict :
          /\ first_equal_dict[x] \in DOMAIN second_equal_dict
          /\ second_equal_dict[first_equal_dict[x]] = x
    /\ \A y \in DOMAIN second_equal_dict :
          /\ second_equal_dict[y] \in DOMAIN first_equal_dict
          /\ first_equal_dict[second_equal_dict[y]] = y
    /\ key_error.site # "pairing"

\* An extension step has removed a pairing and other pairings remain.
C15_Witness ==
    /\ pc \in {"right", "left"}
    /\ Len(current_segment) >= 3
    /\ first_equal_dict # <<>>
    /\ Cardinality(DOMAIN first_equal_dict) < Len(equal_idx_pairs(line_segments, tolerance))

\* C16: the working state is only consumed: after construction no step adds
\* an entry to end_point_dict or to either map or changes a remaining entry
\* (so a removed endpoint never comes back to be removed again), construction
\* makes every endpoint index 0..2N-1 available, and a successful return
\* leaves end_point_dict empty.
C16_OnlyConsumed ==
    [][/\ pc = "match" => end_point_dict' = 0..(2 * NumSegs - 1)
       /\ pc # "match" =>
            /\ end_point_dict' \subseteq end_point_dict
            /\ DOMAIN first_equal_dict' \subseteq DOMAIN first_equal_dict
            /\ DOMAIN second_equal_dict' \subseteq DOMAIN second_equal_dict
            /\ \A x \in DOMAIN first_equal_dict' :
                  first_equal_dict'[x] = first_equal_dict[x]
            /\ \A y \in DOMAIN second_equal_dict' :
                  second_equal_dict'[y] = second_equal_dict[y]
       /\ (pc' = "done" /\ key_error' = NoError) => end_point_dict' = {}]_vars

\* A successful return after two curves were emitted, one of them extended.
C16_Witness ==
    /\ Returned /\ ~Failed
    /\ Len(curves_list) = 2
    /\ \E c \in 1..2 : Len(curves_list[c]) >= 3
    /\ end_point_dict = {}

\* C17: at every Start and at the top of every extension-loop iteration the
\* two endpoints of a segment are both available or both consumed, and no
\* failure arises on the removal of a sibling endpoint (final_value or the
\* other endpoint of the seed): every failure is on the paired endpoint.
C17_SiblingsTogether ==
    /\ pc \in {"loop", "right", "left"} =>
          \A i \in 0..(NumSegs - 1) :
              (2 * i \in end_point_dict) <=> (2 * i + 1 \in end_point_dict)
    /\ Failed => key_error.site = "paired"

\* A failure on the paired endpoint after the chain had grown, with whole
\* segments still available.
C17_Witness ==
    /\ Failed /\ key_error.site = "paired"
    /\ Len(current_segment) >= 3
    /\ \E i \in 0..(NumSegs - 1) : {2 * i, 2 * i + 1} \subseteq end_point_dict

====
